---- MODULE Spec2Model ----
(***************************************************************************)
(* volt_parser: the enrichment pipeline.                                   *)
(*                                                                         *)
(*   cache.py      Cache.get / Cache.set over a key-value table            *)
(*   enrichers.py  _fetch_json (cache + tenacity retry), the WikiData and  *)
(*                 Wikipedia helpers, _anthropic_web_search, and           *)
(*                 enrich_company                                          *)
(*   extractor.py  _normalize                                              *)
(*   cli.py        main: one asyncio task per name, awaited in name order  *)
(*                                                                         *)
(* asyncio is cooperative: a task runs until it awaits a network reply, a  *)
(* tenacity sleep or the assistant thread.  Every action below is one such *)
(* run of one task (or of main), from one suspension to the next.          *)
(***************************************************************************)
EXTENDS Integers, Sequences, FiniteSets, TLC

----------------------------------------------------------------------------
(* Bounds of the model *)

\* names handed to one batch run
NumNames == 3
\* failing replies (non-200, transport error, undecodable or null body) the
\* remote services give in one run
MaxFaults == 3

\* the entities of a doc are at most this many
MaxEnts == 3

----------------------------------------------------------------------------
(* Text.  A string is a sequence of characters.  "A^" "EU" "TM" stand for  *)
(* the three characters of the mis-decoded right quote that _normalize     *)
(* replaces (extractor.py line 15).                                        *)

Lower(c) ==
  CASE c = "A" -> "a"
    [] c = "B" -> "b"
    [] c = "C" -> "c"
    [] c = "A^" -> "a^"
    [] OTHER -> c

LowerStr(s) == [k \in 1..Len(s) |-> Lower(s[k])]

IsSpace(c) == c = " "

Tail3(s) == SubSeq(s, 4, Len(s))

RECURSIVE ReplaceQuote(_)
ReplaceQuote(s) ==
  IF s = <<>> THEN <<>>
  ELSE IF Len(s) >= 3 /\ SubSeq(s, 1, 3) = <<"A^", "EU", "TM">>
       THEN <<"'">> \o ReplaceQuote(Tail3(s))
       ELSE <<Head(s)>> \o ReplaceQuote(Tail(s))

\* _PUNCT_RE = [',.\s]+$ : the trailing run of quote, comma, dot, whitespace
IsPunct(c) == c \in {"'", ",", "."} \/ IsSpace(c)

RECURSIVE StripTrailingPunct(_)
StripTrailingPunct(s) ==
  IF s # <<>> /\ IsPunct(s[Len(s)])
  THEN StripTrailingPunct(SubSeq(s, 1, Len(s) - 1))
  ELSE s

RECURSIVE LStrip(_)
LStrip(s) == IF s # <<>> /\ IsSpace(Head(s)) THEN LStrip(Tail(s)) ELSE s

RECURSIVE RStrip(_)
RStrip(s) ==
  IF s # <<>> /\ IsSpace(s[Len(s)]) THEN RStrip(SubSeq(s, 1, Len(s) - 1)) ELSE s

\* str.strip()
Strip(s) == LStrip(RStrip(s))

\* extractor._normalize
normalize(name) == Strip(StripTrailingPunct(LowerStr(ReplaceQuote(name))))

\* the length of the first word of a text that starts with no blank
RECURSIVE WordLen(_)
WordLen(s) ==
  IF s = <<>> \/ IsSpace(Head(s)) THEN 0 ELSE 1 + WordLen(Tail(s))

\* str.split(): the words between the runs of blanks
RECURSIVE Split(_)
Split(s) ==
  LET t == LStrip(s)
  IN  IF t = <<>> THEN <<>>
      ELSE <<SubSeq(t, 1, WordLen(t))>>
           \o Split(SubSeq(t, WordLen(t) + 1, Len(t)))

\* x in list
InList(x, list) == \E k \in 1..Len(list) : list[k] = x

\* volt-parser/extractor.py, _is_duplicate: the normal forms are equal, or
\* one is a word of the other
is_duplicate(name, acc) ==
  LET norm == normalize(name)
  IN  \E k \in 1..Len(acc) :
        LET ex_norm == normalize(acc[k])
        IN  \/ norm = ex_norm
            \/ InList(norm, Split(ex_norm))
            \/ InList(ex_norm, Split(norm))

Max2(a, b) == IF a > b THEN a ELSE b

\* the length of a longest common subsequence
RECURSIVE LCS(_, _)
LCS(a, b) ==
  IF a = <<>> \/ b = <<>> THEN 0
  ELSE IF Head(a) = Head(b) THEN 1 + LCS(Tail(a), Tail(b))
       ELSE Max2(LCS(Tail(a), b), LCS(a, Tail(b)))

SIM_THRESHOLD == 90

\* rapidfuzz fuzz.ratio(a, b) >= threshold: the ratio is
\* 100 * 2 * LCS / (len(a) + len(b)), and 100 for two empty strings
ratio_at_least(a, b, threshold) ==
  IF Len(a) + Len(b) = 0 THEN 100 >= threshold
  ELSE 200 * LCS(a, b) >= threshold * (Len(a) + Len(b))

\* extractor.py, _is_duplicate: the fuzzy ratio of the lower-cased names
is_duplicate_fuzz(name, existing) ==
  \E k \in 1..Len(existing) :
    ratio_at_least(LowerStr(name), LowerStr(existing[k]), SIM_THRESHOLD)

----------------------------------------------------------------------------
(* Values.  Python's None, which is also what json.loads gives for the     *)
(* JSON text null.  A decoded reply body is the document of a URL at some  *)
(* revision; what the pipeline reads from it is looked up in the world.    *)

None == [k |-> "None"]

\* a key a dict does not hold; a string given as a token; a string given by
\* its characters; a list; a number
Absent == [k |-> "absent"]
S(v) == [k |-> "str", v |-> v]
T(chars) == [k |-> "str", chars |-> chars]
L(items) == [k |-> "list", items |-> items]
Num(n) == [k |-> "num", n |-> n]

IsStr(x) == x.k = "str"

\* Python truth of a value read from JSON
Truthy(x) ==
  CASE x.k \in {"None", "absent"} -> FALSE
    [] x.k = "str" -> x \notin {S(""), T(<<>>)}
    [] x.k = "list" -> x.items # <<>>
    [] x.k = "num" -> x.n # 0
    [] OTHER -> TRUE

Unknown == S("Unknown")

Revs == {1, 2}

Body(url, rev) == [url |-> url, rev |-> rev]

SearchUrl(name) == [search |-> name]
EntityUrl(qid) == [entity |-> qid]
SummaryUrl(title) == [summary |-> title]

\* json.dumps / json.loads as cache.py uses them: the table holds text
Dumps(value) ==
  IF value = None THEN [text |-> "null"] ELSE [text |-> "object", doc |-> value]

Loads(text) == IF text.text = "null" THEN None ELSE text.doc

\* a plausible slip: the table is never consulted
Cache_get_miss(c, key) == None

\* a plausible slip: the table has no primary key, so REPLACE only inserts
Cache_set_insert(c, key, value) == c \cup {[k |-> key, v |-> Dumps(value)]}

\* the rows of table kv (k TEXT PRIMARY KEY, v TEXT) that hold a key
Rows(c, key) == {r \in c : r.k = key}

\* Cache.get: SELECT v FROM kv WHERE k = ?, the first row's value decoded,
\* or None when there is no row
Cache_get(c, key) ==
  IF Rows(c, key) = {} THEN None ELSE Loads((CHOOSE r \in Rows(c, key) : TRUE).v)

\* Cache.set: REPLACE INTO kv, the primary key deletes the row in conflict
Cache_set(c, key, value) ==
  (c \ Rows(c, key)) \cup {[k |-> key, v |-> Dumps(value)]}

----------------------------------------------------------------------------
(* tenacity: @retry(stop_after_attempt(3), wait_exponential(1, 8),         *)
(* retry_if_exception_type(EnrichmentError)); reraise is left False, so    *)
(* when the attempts run out the caller gets tenacity.RetryError.          *)

StopAfterAttempt == 3
WaitMultiplier == 1
WaitMax == 8

Min2(a, b) == IF a < b THEN a ELSE b

RECURSIVE Pow2(_)
Pow2(n) == IF n = 0 THEN 1 ELSE 2 * Pow2(n - 1)

\* wait_exponential.__call__: min(multiplier * 2 ** (attempt - 1), max)
wait_exponential(attempt) == Min2(WaitMultiplier * Pow2(attempt - 1), WaitMax)

\* a plausible slip: no stop condition, the tenacity default
stop_never(attempt) == FALSE

\* a plausible slip: one attempt fewer
stop_one_short(attempt) == attempt >= StopAfterAttempt - 1

\* stop_after_attempt.__call__
stop_after_attempt(attempt) == attempt >= StopAfterAttempt

----------------------------------------------------------------------------
(* The world: what the remote services hold.                               *)
(*   search[name]  the first wbsearchentities hit for a name, or NoHit     *)
(*   company       the entity record of the hit (Q1)                       *)
(*   extract       the "extract" of the Wikipedia summary                  *)
(*   llm           the assistant: library, key, client, call, reply        *)
(* The entities that claims link to are fixed (Linked).                    *)

NoHit == [k |-> "nohit"]
Hit(id, label, description) ==
  [k |-> "hit", id |-> id, label |-> label, description |-> description]

\* a claim's first statement: no such property, a snak without datavalue,
\* a plain value, or a reference to another item
NoClaim == [k |-> "absent"]
NoValue == [k |-> "novalue"]
Lit(v) == [k |-> "lit", v |-> v]
Item(q) == [k |-> "item", q |-> q]

EntityRec(site, sector, hq, exec, founder, label) ==
  [P856 |-> site, P452 |-> sector, P159 |-> hq, P1037 |-> exec,
   P112 |-> founder, label |-> label]

Linked(qid) ==
  CASE qid = "Q5" -> EntityRec(NoClaim, NoClaim, NoClaim, NoClaim, NoClaim, T(<<"A">>))
    [] qid = "Q6" -> EntityRec(NoClaim, NoClaim, NoClaim, NoClaim, NoClaim, T(<<"B">>))
    [] qid = "Q8" -> EntityRec(NoClaim, NoClaim, NoClaim, NoClaim, NoClaim, S("Tech"))
    [] OTHER -> EntityRec(NoClaim, NoClaim, NoClaim, NoClaim, NoClaim, Absent)

EntityOf(w, qid) == IF qid = "Q1" THEN w.company ELSE Linked(qid)

\* the dict the assistant's reply parses to
WebDict(website, sector, hq, description, people, competitors) ==
  [website |-> website, sector |-> sector, hq_location |-> hq,
   description |-> description, key_people |-> people,
   competitors |-> competitors]

EmptyDict == WebDict(Absent, Absent, Absent, Absent, Absent, Absent)

Fail == [k |-> "fail"]

\* the assistant's reply text, by what each parsing stage makes of it:
\* whether the text holds a {...} span, what json.loads gives for the span
\* and for the repaired span, the first URL in the text, the text's length
Reply(braces, strict, repaired, url, len) ==
  [braces |-> braces, strict |-> strict, repaired |-> repaired,
   url |-> url, len |-> len]

Llm(lib, key, ctor, call, reply) ==
  [lib |-> lib, key |-> key, ctor |-> ctor, call |-> call, reply |-> reply]

----------------------------------------------------------------------------
(* enrichers.py, the parts that do not suspend *)

\* dict.get(key, default)
Get(value, default) == IF value = Absent THEN default ELSE value

\* bool(dict): a dict with no key is false
DictTruthy(d) ==
  "k" \notin DOMAIN d /\ \E f \in DOMAIN d : d[f] # Absent

\* _wd_search, after the fetch: the first hit or None
wd_search(w, data) ==
  LET hit == w.search[data.url.search]
  IN  IF hit.k = "hit" THEN hit ELSE None

ExcerptLimit == 300

\* raw[:300] + ("..." if len(raw) > 300 else "")
Excerpt(reply) ==
  [k |-> "str", excerpt |-> Min2(reply.len, ExcerptLimit),
   ellipsis |-> reply.len > ExcerptLimit]

\* _anthropic_web_search, from the reply on (lines 225-286)
parse_reply(reply) ==
  IF ~reply.braces THEN None
  ELSE IF reply.strict # Fail THEN reply.strict
  ELSE IF reply.repaired # Fail THEN reply.repaired
  ELSE [website |-> IF reply.url # None THEN reply.url ELSE Unknown,
        description |-> Excerpt(reply),
        sector |-> Unknown,
        hq_location |-> Unknown,
        key_people |-> L(<<>>),
        competitors |-> Absent]

MaxPeople == 3

\* the fallback profile's key_people (lines 324-330)
RECURSIVE web_people(_)
web_people(persons) ==
  IF persons = <<>> THEN <<>>
  ELSE LET person == Head(persons)
           rest == web_people(Tail(persons))
       IN  IF person.k = "dict" /\ person.name # Absent
           THEN <<person.name>> \o rest
           ELSE IF person.k = "str" THEN <<T(Strip(person.chars))>> \o rest
           ELSE rest

FirstN(s, n) == SubSeq(s, 1, Min2(Len(s), n))

web_key_people(web_data) ==
  IF web_data.key_people.k = "list"
  THEN web_people(FirstN(web_data.key_people.items, MaxPeople))
  ELSE <<>>

\* the profile built from the fallback's data (lines 333-353)
fallback_profile(name, web_data) ==
  [name |-> name,
   aliases |-> <<>>,
   website |-> Get(web_data.website, Unknown),
   sector |-> Get(web_data.sector, Unknown),
   hq_location |-> Get(web_data.hq_location, Unknown),
   description |-> Get(web_data.description, S("(found via web search)")),
   key_people |-> web_key_people(web_data),
   competitors |-> <<>>,
   sources |-> [anthropic_web_search |-> "Anthropic Web Search Tool"]]

\* a plausible slip: the alias test compares the names as typed
aliases_raw(name, canonical) ==
  IF name # canonical THEN <<name>> ELSE <<>>

\* line 418
aliases_of(name, canonical) ==
  IF normalize(name) # normalize(canonical) THEN <<name>> ELSE <<>>

WikidataUrl(qid) == [k |-> "str", wikidata |-> qid]

\* the profile built from the knowledge base (lines 414-440)
kb_profile(name, hit, website, sector, hq, description, key_people) ==
  [name |-> hit.label,
   aliases |-> aliases_of(name, hit.label),
   website |-> website,
   sector |-> sector,
   hq_location |-> hq,
   description |-> description,
   key_people |-> key_people,
   competitors |-> <<>>,
   sources |-> [wikidata |-> WikidataUrl(hit.id), wikipedia |-> hit.label]]

----------------------------------------------------------------------------
(* State *)

VARIABLES
  world,     \* what the remote services hold (never changes)
  names,     \* the names to enrich, in extraction order (never changes)
  use_llm,   \* the fallback switch (never changes)
  tasks,     \* tasks[i]: the enrich_company coroutine of names[i]
  cache,     \* the kv table: its rows, key k and stored text v
  watch,     \* the one URL whose replies fail or change between GETs in
             \* this run, and whose fetches are recorded (never changes)
  gets,      \* history: network GETs issued for watch
  first,     \* history: the first non-null result a call for watch returned
  last,      \* history: the results the calls for watch returned
  faults,    \* failing replies given so far
  overtook,  \* history: a task ended while a task of an earlier name ran
  main,      \* the caller: cli.main, or _demo of enrichers.py
  doc,       \* extract_companies: the spaCy doc and the loop over doc.ents
  calls      \* history: the latest Cache.set of each key, the latest Cache.get

vars == <<world, names, use_llm, watch, tasks, cache, gets, first, last,
          faults, overtook, main, doc, calls>>

\* the inputs of a run, and the doc the names were extracted from: no step
\* of enrich_company or of main changes them
input == <<world, names, use_llm, watch, doc, calls>>

TaskIds == 1..Len(names)

\* a local variable not yet assigned
Unset == [k |-> "unset"]

NewTask ==
  [pc |-> "init", stage |-> "search", url |-> None, attempt |-> 0,
   waits |-> <<>>, ngets |-> 0, exc |-> "none", fetched |-> <<>>,
   hit |-> Unset, description |-> Unset, website |-> Unset, sector |-> Unset,
   hq |-> Unset, key_people |-> <<>>, web_data |-> Unset,
   result |-> [k |-> "running"]]

\* the entity record _wd_entity returned for the hit
Company(t) == EntityOf(world, t.hit.id)

----------------------------------------------------------------------------
(* enrich_company, from one suspension to the next.  A task record t is    *)
(* moved through the stages of lines 298-445:                              *)
(*   search, entity, summary, site, P452, P159, P1037, P112                *)
(* pc = "call" asks for _fetch_json(t.url); pc = "llm" waits for the       *)
(* assistant thread; pc = "done" holds the profile or the exception.       *)

Return(t, profile) ==
  [t EXCEPT !.pc = "done", !.result = [k |-> "profile", profile |-> profile]]

Raise(t, exc) ==
  [t EXCEPT !.pc = "done",
            !.result = [k |-> "raise", exc |-> exc, stage |-> t.stage]]

Fetch(t, stage, url) ==
  [t EXCEPT !.pc = "call", !.stage = stage, !.url = url, !.attempt = 1,
            !.waits = <<>>, !.ngets = 0, !.exc = "none",
            !.fetched = Append(@, stage)]

\* _anthropic_web_search up to its await (lines 167-208): None without the
\* library or the key; the client is built outside the try block
llm_enter(t, stage) ==
  IF ~world.llm.lib \/ ~world.llm.key
  THEN [t EXCEPT !.pc = "llmnone", !.stage = stage]
  ELSE IF ~world.llm.ctor
       THEN Raise([t EXCEPT !.stage = stage], "AnthropicError")
       ELSE [t EXCEPT !.pc = "llm", !.stage = stage]

\* _anthropic_web_search from its await on (lines 208-294)
llm_result ==
  IF ~world.llm.call THEN None ELSE parse_reply(world.llm.reply)

\* _wd_official_site
wd_official_site(entity) ==
  CASE entity.P856.k = "absent" -> None
    [] entity.P856.k = "novalue" -> [k |-> "KeyError"]
    [] OTHER -> entity.P856.v

Or(value, default) == IF Truthy(value) THEN value ELSE default

\* lines 408-409
add_person(key_people, label) ==
  IF Truthy(label) /\ \A k \in 1..Len(key_people) : key_people[k] # label
  THEN Append(key_people, label)
  ELSE key_people

Finish(i, t) ==
  Return(t, kb_profile(names[i], t.hit, t.website, t.sector, t.hq,
                       t.description, t.key_people))

RECURSIVE Enter(_, _, _)
RECURSIVE AfterLabel(_, _, _)

\* _wd_first_claim_label's result put to use (lines 400-411)
AfterLabel(i, t, label) ==
  CASE t.stage = "P452" ->
         Enter(i, [t EXCEPT !.sector = Or(label, Unknown)], "P159")
    [] t.stage = "P159" ->
         Enter(i, [t EXCEPT !.hq = Or(label, Unknown)], "P1037")
    [] t.stage = "P1037" ->
         LET t2 == [t EXCEPT !.key_people = add_person(@, label)]
         IN  IF Len(t2.key_people) >= MaxPeople THEN Finish(i, t2)
             ELSE Enter(i, t2, "P112")
    [] t.stage = "P112" ->
         Finish(i, [t EXCEPT !.key_people = add_person(@, label)])

\* lines 383-397, once the fallback's data (or None) is at hand
AfterSite(i, t, web_data) ==
  LET qurl == WikidataUrl(t.hit.id)
  IN  IF DictTruthy(web_data) /\ web_data.website # Unknown
      THEN IF web_data.website = Absent
           THEN Raise([t EXCEPT !.web_data = web_data], "KeyError")
           ELSE Enter(i, [t EXCEPT !.website = Or(web_data.website, qurl),
                                   !.web_data = web_data], "P452")
      ELSE Enter(i, [t EXCEPT !.website = Or(t.website, qurl),
                              !.web_data = web_data], "P452")

\* a plausible slip: "if web_data is not None", so an empty record passes
AfterNoHit_any(i, t, web_data) ==
  IF web_data # None
  THEN Return([t EXCEPT !.web_data = web_data],
              fallback_profile(names[i], web_data))
  ELSE Raise([t EXCEPT !.web_data = web_data], "EnrichmentError")

\* lines 313-363, once the fallback's data (or None) is at hand
AfterNoHit(i, t, web_data) ==
  IF DictTruthy(web_data)
  THEN Return([t EXCEPT !.web_data = web_data],
              fallback_profile(names[i], web_data))
  ELSE Raise([t EXCEPT !.web_data = web_data], "EnrichmentError")

AfterLlm(i, t, web_data) ==
  IF t.stage = "llm_nohit" THEN AfterNoHit(i, t, web_data)
  ELSE AfterSite(i, t, web_data)

\* the fallback is asked; without the library or the key it answers at once
AskLlm(i, t, stage) ==
  LET t2 == llm_enter(t, stage)
  IN  IF t2.pc = "llmnone" THEN AfterLlm(i, [t2 EXCEPT !.pc = "run"], None)
      ELSE t2

Enter(i, t, stage) ==
  IF stage = "site"
  THEN LET site == wd_official_site(Company(t))
       IN  IF site.k = "KeyError" THEN Raise([t EXCEPT !.stage = "site"], "KeyError")
           ELSE IF ~Truthy(site) /\ use_llm
                THEN AskLlm(i, [t EXCEPT !.website = site], "llm_site")
                ELSE Enter(i, [t EXCEPT !.website =
                                  Or(site, WikidataUrl(t.hit.id))], "P452")
  ELSE \* _wd_first_claim_label up to its fetch (lines 107-125)
       LET claim == Company(t)[stage]
           t2 == [t EXCEPT !.stage = stage]
       IN  CASE claim.k \in {"absent", "novalue"} -> AfterLabel(i, t2, None)
             [] claim.k = "lit" -> AfterLabel(i, t2, claim.v)
             [] claim.k = "item" -> Fetch(t2, stage, EntityUrl(claim.q))

\* what each caller of _fetch_json does with the data it returned
After(i, t, data) ==
  CASE t.stage = "search" ->
         IF data = None THEN Raise(t, "AttributeError")
         ELSE LET t2 == [t EXCEPT !.hit = wd_search(world, data)]
              IN  IF t2.hit = None
                  THEN IF use_llm THEN AskLlm(i, t2, "llm_nohit")
                       ELSE Raise(t2, "EnrichmentError")
                  ELSE Fetch(t2, "entity", EntityUrl(t2.hit.id))
    [] t.stage = "entity" ->
         IF data = None THEN Raise(t, "TypeError")
         ELSE Fetch(t, "summary", SummaryUrl(t.hit.label))
    [] t.stage = "summary" ->
         IF data = None THEN Raise(t, "AttributeError")
         ELSE LET extract == Get(world.extract, S(""))
                  short == Get(t.hit.description, S(""))
              IN  Enter(i, [t EXCEPT !.description = Or(extract, short)], "site")
    [] OTHER ->
         IF data = None THEN Raise(t, "TypeError")
         ELSE AfterLabel(i, t, Get(EntityOf(world, data.url.entity).label, None))

\* an exception on its way out of enrich_company: _wiki_summary catches
\* EnrichmentError (lines 156-158), nothing else is caught
Propagate(i, t, exc) ==
  IF t.stage = "summary" /\ exc = "EnrichmentError"
  THEN Enter(i, [t EXCEPT !.description =
                   Or(S(""), Get(t.hit.description, S("")))], "site")
  ELSE Raise(t, exc)

----------------------------------------------------------------------------
(* _fetch_json (lines 60-78) *)

\* no other task has a GET of this URL in flight
Solo(i, url) ==
  \A j \in TaskIds : j # i => ~(tasks[j].pc = "get" /\ tasks[j].url = url)

NoteGet(h, url) == IF url = watch THEN [h EXCEPT !.gets = @ + 1] ELSE h

\* last: the latest result v, the number n of results, the first result v1;
\* first: the first result v that was not None, whether no other GET of the
\* URL was in flight then, and the GETs issued until then
NoteReturn(i, h, url, data) ==
  IF url # watch THEN h
  ELSE [h EXCEPT
          !.last = IF @ = None THEN [v |-> data, n |-> 1, v1 |-> data]
                   ELSE [v |-> data, n |-> @.n + 1, v1 |-> @.v1],
          !.first = IF @ = None /\ data # None
                    THEN [v |-> data, solo |-> Solo(i, url), gets |-> h.gets]
                    ELSE @]

\* the revisions a GET of the URL may be answered with
RevsOf(url) == IF url = watch THEN Revs ELSE {1}

\* one attempt up to its await: the cache is asked first (lines 64-66); a
\* hit returns to the caller, which runs on; a miss issues the GET
RECURSIVE Run(_, _, _, _)
Run(i, t, c, h) ==
  LET cached == Cache_get(c, t.url)
  IN  IF cached # None
      THEN LET t2 == After(i, t, cached)
               h2 == NoteReturn(i, h, t.url, cached)
           IN  IF t2.pc = "call" THEN Run(i, t2, c, h2)
               ELSE [t |-> t2, h |-> h2]
      ELSE [t |-> [t EXCEPT !.pc = "get", !.ngets = @ + 1],
            h |-> NoteGet(h, t.url)]

Continue(i, t, c, h) ==
  IF t.pc = "call" THEN Run(i, t, c, h) ELSE [t |-> t, h |-> h]

Hist == [gets |-> gets, first |-> first, last |-> last]

\* the step's outcome r = [t, h] and the cache c become the next state
Becomes(i, r, c) ==
  /\ tasks' = [tasks EXCEPT ![i] = r.t]
  /\ cache' = c
  /\ gets' = r.h.gets
  /\ first' = r.h.first
  /\ last' = r.h.last
  /\ overtook' = (overtook \/ (r.t.pc = "done" /\
                                \E j \in 1..(i - 1) : tasks[j].pc # "done"))

AllStarted == \A j \in TaskIds : tasks[j].pc # "init"

\* _gather can take the result of the task it awaits (lines 70-73); that
\* step touches nothing a task reads, and is taken before the tasks go on
Collectable ==
  /\ main.pc = "gather"
  /\ main.next <= Len(names)
  /\ tasks[main.next].pc = "done"
  /\ \/ tasks[main.next].result.k = "profile"
     \/ tasks[main.next].result.exc = "EnrichmentError"

Running == main.pc \in {"gather", "await"} /\ ~Collectable

\* a created task starts: tasks start in creation order, before any reply
Start(i) ==
  /\ Running
  /\ tasks[i].pc = "init"
  /\ \A j \in TaskIds : j < i => tasks[j].pc # "init"
  /\ Becomes(i, Run(i, Fetch(tasks[i], "search", SearchUrl(names[i])),
                    cache, Hist), cache)
  /\ UNCHANGED <<input, faults, main>>

\* what a failed attempt has of the answer: an error page, bytes that are
\* not JSON, or nothing
Undecoded(url) == [url |-> url, failed |-> TRUE]

\* a plausible slip: the answer is stored before it is looked at
Stored_any(c, url, exc, data) == Cache_set(c, url, data)

\* the table after an attempt: CACHE.set (line 76) is reached only when
\* neither the raise of line 72 nor resp.json() of line 74 left the block
Stored(c, url, exc, data) ==
  IF exc = "none" THEN Cache_set(c, url, data) ELSE c

\* status 200 and a body that decodes (lines 74-78)
ReplyOk(i) ==
  /\ Running /\ AllStarted
  /\ tasks[i].pc = "get"
  /\ \E rev \in RevsOf(tasks[i].url) :
       LET t == tasks[i]
           data == Body(t.url, rev)
           c == Stored(cache, t.url, "none", data)
       IN  Becomes(i, Continue(i, After(i, t, data), c,
                               NoteReturn(i, Hist, t.url, data)), c)
  /\ UNCHANGED <<input, faults, main>>

\* status 200 and the body null: it is stored and returned like any other
ReplyNull(i) ==
  /\ Running /\ AllStarted
  /\ tasks[i].pc = "get"
  /\ tasks[i].url = watch
  /\ faults < MaxFaults
  /\ LET t == tasks[i]
         c == Stored(cache, t.url, "none", None)
     IN  Becomes(i, Continue(i, After(i, t, None), c,
                             NoteReturn(i, Hist, t.url, None)), c)
  /\ faults' = faults + 1
  /\ UNCHANGED <<input, main>>

\* tenacity, when the attempt raised EnrichmentError: sleep and try again,
\* or give up with RetryError
Retry(i, t) ==
  IF stop_after_attempt(t.attempt)
  THEN Propagate(i, t, "RetryError")
  ELSE [t EXCEPT !.pc = "sleep",
                 !.waits = Append(@, wait_exponential(t.attempt))]

\* a plausible slip: a bare @retry, which retries on every exception
retry_if_any(exc) == TRUE

\* retry_if_exception_type(EnrichmentError)
retry_if_exception_type(exc) == exc = "EnrichmentError"

\* an attempt raised exc (kept in t.exc): tenacity retries it or lets it
\* through to the caller
Attempted(i, t, exc) ==
  LET t2 == [t EXCEPT !.exc = exc]
  IN  IF retry_if_exception_type(exc) THEN Retry(i, t2)
      ELSE Propagate(i, t2, exc)

\* status other than 200 (lines 70-72)
ReplyNon200(i) ==
  /\ Running /\ AllStarted
  /\ tasks[i].pc = "get"
  /\ tasks[i].url = watch
  /\ faults < MaxFaults
  /\ LET t == tasks[i]
         exc == "EnrichmentError"
         c == Stored(cache, t.url, exc, Undecoded(t.url))
     IN  Becomes(i, Continue(i, Attempted(i, t, exc), c, Hist), c)
  /\ faults' = faults + 1
  /\ UNCHANGED <<input, main>>

\* what session.get raises: aiohttp.ClientError when the connection fails,
\* asyncio.TimeoutError when the 15 s of ClientTimeout are over
TransportErrors == {"ClientError", "TimeoutError"}

\* session.get raises, or resp.json() raises on a body that is not JSON
ReplyRaises(i) ==
  /\ Running /\ AllStarted
  /\ tasks[i].pc = "get"
  /\ tasks[i].url = watch
  /\ faults < MaxFaults
  /\ \E exc \in TransportErrors \cup {"JSONDecodeError"} :
       LET t == tasks[i]
           c == Stored(cache, t.url, exc, Undecoded(t.url))
       IN  Becomes(i, Continue(i, Attempted(i, t, exc), c, Hist), c)
  /\ faults' = faults + 1
  /\ UNCHANGED <<input, main>>

\* the tenacity sleep ends: the next attempt starts, at the cache again
Wake(i) ==
  /\ Running /\ AllStarted
  /\ tasks[i].pc = "sleep"
  /\ Becomes(i, Run(i, [tasks[i] EXCEPT !.pc = "call", !.attempt = @ + 1],
                    cache, Hist), cache)
  /\ UNCHANGED <<input, faults, main>>

\* asyncio.to_thread(client.messages.create, ...) is over
LlmReply(i) ==
  /\ Running /\ AllStarted
  /\ tasks[i].pc = "llm"
  /\ Becomes(i, Continue(i, AfterLlm(i, tasks[i], llm_result), cache, Hist),
             cache)
  /\ UNCHANGED <<input, faults, main>>

----------------------------------------------------------------------------
(* cli.main (lines 58-78) *)

\* json_utils.write_json validates the list against schema.json first
schema_valid(data) ==
  \A k \in 1..Len(data) :
    DOMAIN data[k] = {"name", "aliases", "website", "sector", "hq_location",
                      "description", "key_people", "competitors", "sources"}

\* a plausible slip: no names is reported as an error, like a missing file
no_names_exit(m) == [m EXCEPT !.pc = "aborted", !.error = "NoNames", !.exit = 1]

\* lines 60-62: write_json([], output), which validates the list first, and
\* sys.exit(0)
no_names(m) ==
  IF schema_valid(<<>>)
  THEN [m EXCEPT !.pc = "written", !.output = <<>>, !.exit = 0]
  ELSE [m EXCEPT !.pc = "aborted", !.error = "ValidationError"]

\* lines 58-64: no names, an empty list is written and the run exits
\* with status 0; otherwise one task per name is created
MainStart ==
  /\ main.pc = "start"
  /\ main' = IF names = <<>> THEN no_names(main)
             ELSE [main EXCEPT !.pc = "gather"]
  /\ UNCHANGED <<input, tasks, cache, gets, first, last, faults, overtook>>

Cancelled(t) ==
  IF t.pc = "done" THEN t
  ELSE [NewTask EXCEPT !.pc = "done",
                       !.result = [k |-> "raise", exc |-> "CancelledError",
                                   stage |-> "any"]]

\* a plausible slip: the newest profile is put first
collect_front(enriched, profile) == <<profile>> \o enriched

\* line 71: enriched.append(await t)
collect(enriched, profile) == Append(enriched, profile)

\* lines 69-73: the tasks are awaited in name order; a profile is appended,
\* an EnrichmentError is printed and skipped; any other exception leaves
\* _gather, and asyncio.run cancels the tasks still running
Await ==
  /\ main.pc = "gather"
  /\ main.next <= Len(names)
  /\ tasks[main.next].pc = "done"
  /\ LET r == tasks[main.next].result
     IN  CASE r.k = "profile" ->
                /\ main' = [main EXCEPT !.enriched = collect(@, r.profile),
                                        !.next = @ + 1]
                /\ tasks' = tasks
           [] r.k = "raise" /\ r.exc = "EnrichmentError" ->
                /\ main' = [main EXCEPT !.skipped = Append(@, main.next),
                                        !.next = @ + 1]
                /\ tasks' = tasks
           [] OTHER ->
                /\ main' = [main EXCEPT !.pc = "aborted", !.error = r.exc]
                /\ tasks' = [j \in TaskIds |-> Cancelled(tasks[j])]
  /\ UNCHANGED <<input, cache, gets, first, last, faults, overtook>>

\* lines 76-78: the list is validated and written
Write ==
  /\ main.pc = "gather"
  /\ main.next > Len(names)
  /\ main' = IF schema_valid(main.enriched)
             THEN [main EXCEPT !.pc = "written", !.output = main.enriched,
                               !.exit = 0]
             ELSE [main EXCEPT !.pc = "aborted", !.error = "ValidationError"]
  /\ UNCHANGED <<input, tasks, cache, gets, first, last, faults, overtook>>

----------------------------------------------------------------------------
(* _demo of enrichers.py (lines 453-467): one enrich_company call;         *)
(* EnrichmentError is caught and printed.                                  *)

DemoAwait ==
  /\ main.pc = "await"
  /\ tasks[1].pc = "done"
  /\ LET r == tasks[1].result
     IN  main' = CASE r.k = "profile" ->
                        [main EXCEPT !.pc = "printed", !.output = <<r.profile>>]
                   [] r.k = "raise" /\ r.exc = "EnrichmentError" ->
                        [main EXCEPT !.pc = "printed", !.skipped = <<1>>]
                   [] OTHER -> [main EXCEPT !.pc = "aborted", !.error = r.exc]
  /\ UNCHANGED <<input, tasks, cache, gets, first, last, faults, overtook>>

----------------------------------------------------------------------------
(* extract_companies (volt-parser/extractor.py lines 29-38, extractor.py   *)
(* lines 19-28).  doc.ents is what the NER model found, in document order; *)
(* doc.module says which of the two extractor modules runs.                *)

Entity(label, text) == [label |-> label, text |-> text]

\* _is_duplicate of the module that runs
IsDup(name, acc) ==
  IF doc.module = "volt-parser/extractor.py" THEN is_duplicate(name, acc)
  ELSE is_duplicate_fuzz(name, acc)

\* a plausible slip: every candidate is appended
accept_all(accepted, candidate, dup) == Append(accepted, candidate)

\* if not _is_duplicate(candidate, names): names.append(candidate)
accept(accepted, candidate, dup) ==
  IF ~dup THEN Append(accepted, candidate) ELSE accepted

\* one round of "for ent in doc.ents"; doc.cand, doc.acc and doc.dup keep
\* the last call of _is_duplicate, doc.kept the entities appended
ExtractStep ==
  /\ doc.pc = "loop"
  /\ doc.next <= Len(doc.ents)
  /\ LET ent == doc.ents[doc.next]
         candidate == Strip(ent.text)
         dup == IsDup(candidate, names)
     IN  IF ent.label = "ORG"
         THEN /\ names' = accept(names, candidate, dup)
              /\ doc' = [doc EXCEPT !.next = @ + 1, !.called = TRUE,
                                    !.cand = candidate, !.acc = names,
                                    !.dup = dup,
                                    !.kept = IF Len(names') > Len(names)
                                             THEN Append(@, doc.next) ELSE @]
         ELSE /\ names' = names
              /\ doc' = [doc EXCEPT !.next = @ + 1]
  /\ UNCHANGED <<world, use_llm, watch, tasks, cache, gets, first, last,
                 faults, overtook, main, calls>>

\* return names
ExtractReturn ==
  /\ doc.pc = "loop"
  /\ doc.next > Len(doc.ents)
  /\ doc' = [doc EXCEPT !.pc = "returned"]
  /\ UNCHANGED <<world, names, use_llm, watch, tasks, cache, gets, first,
                 last, faults, overtook, main, calls>>

----------------------------------------------------------------------------
(* The worlds and the inputs *)

Empty == {}

\* the text was processed before the run
NoDoc == [pc |-> "none"]

\* the cache is driven by the enrichers, not called directly
NoCalls == [pc |-> "none"]

NewMain(pc) ==
  [pc |-> pc, next |-> 1, enriched |-> <<>>, skipped |-> <<>>,
   output |-> None, exit |-> -1, error |-> "none"]

nAb == <<"A", "b">>
nB == <<"B">>
nA == <<"A">>
nAbDot == <<"a", "b", ".">>
nAbQuote == <<" ", "a", "b", "A^", "EU", "TM">>
nBa == <<"B", " ", "a">>
nC == <<"C">>

Plain == EntityRec(Lit(S("http://ab")), NoClaim, NoClaim, NoClaim, NoClaim,
                   T(nAb))

FullDict ==
  WebDict(S("http://w"), S("Retail"), S("Oslo"), S("A shop"),
          L(<<T(<<"A">>), T(<<"B">>)>>), L(<<>>))

NoLlm == Llm(FALSE, FALSE, TRUE, TRUE, Reply(FALSE, Fail, Fail, None, 0))

GoodLlm == Llm(TRUE, TRUE, TRUE, TRUE, Reply(TRUE, FullDict, Fail, None, 80))

\* a batch: names of which extract_companies holds none for a duplicate of
\* another; two of them are the same entity; the command line insists on library and key when the
\* fallback is on (cli.py lines 45-47)
BatchPool == {nAb, nB, nA, nC}

BatchSearch ==
  [n \in BatchPool |->
     CASE n = nAb -> Hit("Q1", nAbDot, S("short"))
       [] n = nB -> Hit("Q1", nAbDot, Absent)
       [] OTHER -> NoHit]

BatchCompany ==
  EntityRec(Lit(S("http://ab")), NoClaim, NoClaim, NoClaim, NoClaim, T(nAb))

RECURSIVE Injective(_, _)
Injective(n, pool) ==
  IF n = 0 THEN {<<>>}
  ELSE LET shorter == Injective(n - 1, pool)
       IN  shorter \cup
           {Append(s, x) : s \in {q \in shorter : Len(q) = n - 1}, x \in pool}

NoRepeat(s) == \A a, b \in 1..Len(s) : a # b => s[a] # s[b]

\* y is named only after x
After2(s, x, y) ==
  \A b \in 1..Len(s) : s[b] = y => \E a \in 1..(b - 1) : s[a] = x

\* the two names of the entity come long form first, the two unknown names
\* in one order
BatchNames ==
  {s \in Injective(NumNames, BatchPool) :
     NoRepeat(s) /\ After2(s, nAb, nB) /\ After2(s, nA, nC)}

BatchLlms ==
  {GoodLlm, Llm(TRUE, TRUE, TRUE, FALSE, Reply(FALSE, Fail, Fail, None, 0))}

BatchWorlds ==
  {[search |-> BatchSearch, company |-> BatchCompany, extract |-> S("An extract"),
    llm |-> l] : l \in BatchLlms}

\* the URLs a run over the names can ask for
ClaimUrls(entity) ==
  {EntityUrl(entity[p].q) :
     p \in {p \in {"P452", "P159", "P1037", "P112"} : entity[p].k = "item"}}

HitUrls(w, hit) ==
  IF hit.k # "hit" THEN {}
  ELSE {EntityUrl(hit.id), SummaryUrl(hit.label)}
       \cup ClaimUrls(EntityOf(w, hit.id))

UrlsOf(w, ns) ==
  UNION {{SearchUrl(ns[k])} \cup HitUrls(w, w.search[ns[k]]) : k \in 1..Len(ns)}

Init ==
  /\ world \in BatchWorlds
  /\ names \in BatchNames
  /\ use_llm \in BOOLEAN
  /\ use_llm \/ world.llm = GoodLlm
  /\ watch \in UrlsOf(world, names) \cup {None}
  /\ tasks = [i \in 1..Len(names) |-> NewTask]
  /\ cache = Empty
  /\ gets = 0
  /\ first = None
  /\ last = None
  /\ faults = 0
  /\ overtook = FALSE
  /\ main = NewMain("start")
  /\ doc = NoDoc
  /\ calls = NoCalls

\* one direct call: enrich_company(target, use_llm), any name, any world
DemoNames == {nAb, nAbDot, nAbQuote, nB}

DemoHits ==
  {Hit("Q1", label, d) : label \in {nAb, nAbDot, nBa}, d \in {Absent, S("short")}}

OneSearch(hit) == [n \in DemoNames |-> hit]

\* the names and labels, the short description and the summary vary
AliasWorlds ==
  {[search |-> OneSearch(h), company |-> Plain, extract |-> e, llm |-> NoLlm] :
     h \in DemoHits, e \in {Absent, S(""), S("An extract")}}

\* the entity's claims vary
ClaimWorlds ==
  {[search |-> OneSearch(Hit("Q1", nAb, S("short"))),
    company |-> EntityRec(site, sector, hq, exec, founder, T(nAb)),
    extract |-> S("An extract"), llm |-> NoLlm] :
     site \in {NoClaim, NoValue, Lit(S("http://ab"))},
     sector \in {NoClaim, NoValue, Lit(S("Retail")), Item("Q8"), Item("Q9")},
     hq \in {NoClaim, Item("Q8")},
     exec \in {NoClaim, Item("Q5"), Item("Q9"), Lit(T(<<"A">>))},
     founder \in {NoClaim, Item("Q5"), Item("Q6")}}

pA == T(<<"A">>)
pSpaceA == T(<<" ", "A">>)
pB == T(<<"B">>)

PeopleLists ==
  {<<pA, pB>>, <<pA, pA>>, <<pSpaceA, pA, pB, pB>>, <<Num(1), pA>>}

DemoDicts ==
  {EmptyDict, FullDict,
   WebDict(None, None, None, None, None, None),
   WebDict(Absent, Absent, Absent, Absent, Absent, L(<<>>)),
   WebDict(Unknown, S("Retail"), Absent, Absent, Absent, Absent),
   WebDict(Num(0), Absent, S("Oslo"), Absent, S("A"), Absent)}
  \cup {WebDict(Absent, S("Retail"), S("Oslo"), Absent, L(p), Absent) :
          p \in PeopleLists}

DemoReplies ==
  {Reply(FALSE, Fail, Fail, None, 20)}
  \cup {Reply(TRUE, d, Fail, None, 80) : d \in DemoDicts}
  \cup {Reply(TRUE, Fail, FullDict, None, 80)}
  \cup {Reply(TRUE, Fail, Fail, u, n) :
          u \in {None, S("http://u")}, n \in {20, 400}}

DemoLlms ==
  {Llm(FALSE, TRUE, TRUE, TRUE, Reply(TRUE, FullDict, Fail, None, 80)),
   Llm(TRUE, FALSE, TRUE, TRUE, Reply(TRUE, FullDict, Fail, None, 80)),
   Llm(TRUE, TRUE, FALSE, TRUE, Reply(TRUE, FullDict, Fail, None, 80)),
   Llm(TRUE, TRUE, TRUE, FALSE, Reply(TRUE, FullDict, Fail, None, 80))}
  \cup {Llm(TRUE, TRUE, TRUE, TRUE, r) : r \in DemoReplies}

NoSite == EntityRec(NoClaim, Lit(S("Retail")), NoClaim, Item("Q5"), NoClaim, T(nAb))

\* the fallback varies, for a name the knowledge base does not know and for
\* one whose entity has no official site
FallbackWorlds ==
  {[search |-> OneSearch(h), company |-> NoSite, extract |-> S("An extract"),
    llm |-> l] :
     h \in {NoHit, Hit("Q1", nAb, S("short"))}, l \in DemoLlms}

InitDemo ==
  /\ \/ world \in AliasWorlds /\ names \in {<<n>> : n \in DemoNames}
        /\ use_llm = FALSE
     \/ world \in ClaimWorlds /\ names = <<nB>> /\ use_llm = FALSE
     \/ world \in FallbackWorlds /\ names = <<nB>> /\ use_llm \in BOOLEAN
  /\ watch \in UrlsOf(world, names) \cup {None}
  /\ tasks = [i \in 1..Len(names) |-> NewTask]
  /\ cache = Empty
  /\ gets = 0
  /\ first = None
  /\ last = None
  /\ faults = 0
  /\ overtook = FALSE
  /\ main = NewMain("await")
  /\ doc = NoDoc
  /\ calls = NoCalls

Next ==
  \/ MainStart
  \/ \E i \in TaskIds : Start(i)
  \/ \E i \in TaskIds : ReplyOk(i)
  \/ \E i \in TaskIds : ReplyNull(i)
  \/ \E i \in TaskIds : ReplyNon200(i)
  \/ \E i \in TaskIds : ReplyRaises(i)
  \/ \E i \in TaskIds : Wake(i)
  \/ \E i \in TaskIds : LlmReply(i)
  \/ Await
  \/ Write

Spec == Init /\ [][Next]_vars

\* some step of Next can be taken, by the guards of its actions: cli.main
\* can start, collect the task it awaits or write; a task can start; a GET
\* in flight can be answered or time out (ClientTimeout, line 68); a
\* tenacity sleep can end; the assistant's client can return
Ready ==
  \/ main.pc = "start"
  \/ main.pc = "gather" /\ main.next > Len(names)
  \/ main.pc = "gather" /\ main.next <= Len(names) /\ tasks[main.next].pc = "done"
  \/ Running /\ \E i \in TaskIds :
       \/ tasks[i].pc = "init"
       \/ AllStarted /\ tasks[i].pc \in {"get", "sleep", "llm"}

\* the event loop runs whatever is ready: weak fairness of Next, WF_vars(Next)
\* with the enabling condition written out
SpecLive == Spec /\ ([]<>~Ready \/ []<><<Next>>_vars)

NextDemo ==
  \/ \E i \in TaskIds : Start(i)
  \/ \E i \in TaskIds : ReplyOk(i)
  \/ \E i \in TaskIds : ReplyNull(i)
  \/ \E i \in TaskIds : ReplyNon200(i)
  \/ \E i \in TaskIds : ReplyRaises(i)
  \/ \E i \in TaskIds : Wake(i)
  \/ \E i \in TaskIds : LlmReply(i)
  \/ DemoAwait

SpecDemo == InitDemo /\ [][NextDemo]_vars

\* one call of extract_companies: the texts of the entities differ by
\* case, by a trailing mark, by blanks around them, or share a word
tAbBang == <<"A", "b", "!">>
tAbC == <<"A", "b", " ", "C">>
tSpaceAb == <<" ", "A", "b", " ">>
tLong == <<"A", "b", "A", "b", "A", "b", "A", "b", "A", "b">>
tLongDot == tLong \o <<".">>

EntityPool ==
  {Entity("ORG", t) :
     t \in {nAb, nAbDot, tAbBang, tAbC, tSpaceAb, nC, tLong, tLongDot}}
  \cup {Entity("PERSON", nB)}

RECURSIVE SeqsUpTo(_, _)
SeqsUpTo(n, pool) ==
  IF n = 0 THEN {<<>>}
  ELSE LET shorter == SeqsUpTo(n - 1, pool)
       IN  shorter \cup
           {Append(q, x) : q \in {r \in shorter : Len(r) = n - 1}, x \in pool}

NewDoc(module, ents) ==
  [pc |-> "loop", module |-> module, ents |-> ents, next |-> 1,
   called |-> FALSE, cand |-> <<>>, acc |-> <<>>, dup |-> FALSE,
   kept |-> <<>>]

InitExtract ==
  /\ doc \in {NewDoc(module, ents) :
                module \in {"volt-parser/extractor.py", "extractor.py"},
                ents \in SeqsUpTo(MaxEnts, EntityPool)}
  /\ names = <<>>
  /\ world \in {w \in BatchWorlds : w.llm = GoodLlm}
  /\ use_llm = FALSE
  /\ watch = None
  /\ tasks = <<>>
  /\ cache = Empty
  /\ gets = 0
  /\ first = None
  /\ last = None
  /\ faults = 0
  /\ overtook = FALSE
  /\ main = NewMain("extract")
  /\ calls = NoCalls

NextExtract ==
  \/ ExtractStep
  \/ ExtractReturn

SpecExtract == InitExtract /\ [][NextExtract]_vars

----------------------------------------------------------------------------
(* cache.py on its own: any sequence of Cache.set and Cache.get on a table *)
(* that starts empty.  The ts column is written by sqlite and never read.   *)

CacheKeys == {SearchUrl(nB), EntityUrl("Q1"), SummaryUrl(nAb)}

\* what is stored: a decoded reply body, or None for the JSON text null
CacheValues == {None} \cup {Body(key, rev) : key \in CacheKeys, rev \in Revs}

NewCalls ==
  [pc |-> "cache", set |-> [key \in CacheKeys |-> Unset], got |-> Unset,
   replaced |-> {}]

\* CACHE.set(key, value)
CacheSet ==
  /\ calls.pc = "cache"
  /\ \E key \in CacheKeys, value \in CacheValues :
       /\ cache' = Cache_set(cache, key, value)
       /\ calls' = [calls EXCEPT
                      !.set[key] = value,
                      !.replaced = IF calls.set[key] \in {Unset, value}
                                   THEN @ ELSE @ \cup {key}]
  /\ UNCHANGED <<world, names, use_llm, watch, tasks, gets, first, last,
                 faults, overtook, main, doc>>

\* CACHE.get(key)
CacheGet ==
  /\ calls.pc = "cache"
  /\ \E key \in CacheKeys :
       calls' = [calls EXCEPT
                   !.got = [key |-> key, value |-> Cache_get(cache, key)]]
  /\ UNCHANGED <<world, names, use_llm, watch, tasks, cache, gets, first,
                 last, faults, overtook, main, doc>>

InitCache ==
  /\ calls = NewCalls
  /\ cache = Empty
  /\ world \in {w \in BatchWorlds : w.llm = GoodLlm}
  /\ names = <<>>
  /\ use_llm = FALSE
  /\ watch = None
  /\ tasks = <<>>
  /\ gets = 0
  /\ first = None
  /\ last = None
  /\ faults = 0
  /\ overtook = FALSE
  /\ main = NewMain("cache")
  /\ doc = NoDoc

NextCache ==
  \/ CacheSet
  \/ CacheGet

SpecCache == InitCache /\ [][NextCache]_vars

----------------------------------------------------------------------------
(* Properties *)

Done(i) == tasks[i].pc = "done"

Profiled(i) == Done(i) /\ tasks[i].result.k = "profile"

Raised(i, exc) ==
  Done(i) /\ tasks[i].result.k = "raise" /\ tasks[i].result.exc = exc

\* C1: in a batch run, a candidate whose enrichment fails, by a direct
\* EnrichmentError or by a fetch that still fails when its retries are
\* used up, never aborts the batch and never cancels a sibling task.
C1_FailureNeverAbortsBatch ==
  /\ main.pc = "aborted" => main.error \notin {"EnrichmentError", "RetryError"}
  /\ (\E i \in TaskIds : Raised(i, "CancelledError"))
       => main.error \notin {"EnrichmentError", "RetryError"}

\* the profiles of the tasks 1..k that returned one, in name order
RECURSIVE ProfilesUpTo(_)
ProfilesUpTo(k) ==
  IF k = 0 THEN <<>>
  ELSE IF tasks[k].result.k = "profile"
       THEN Append(ProfilesUpTo(k - 1), tasks[k].result.profile)
       ELSE ProfilesUpTo(k - 1)

\* C2: whatever the order in which the tasks end, the list gathered so far,
\* and the list written at the end, is exactly the profiles of the tasks that
\* returned one, in the order of the input names; a task that raised
\* EnrichmentError adds no element.
C2_OutputInNameOrder ==
  /\ main.pc = "gather" => main.enriched = ProfilesUpTo(main.next - 1)
  /\ main.pc = "written" => main.output = ProfilesUpTo(Len(names))

\* C2 witness: three names, the middle one failed with EnrichmentError, the
\* other two are written in name order although a later task ended first.
C2_Witness ==
  /\ main.pc = "written"
  /\ Len(names) = 3
  /\ Profiled(1) /\ Raised(2, "EnrichmentError") /\ Profiled(3)
  /\ overtook
  /\ main.output = <<tasks[1].result.profile, tasks[3].result.profile>>
  /\ tasks[1].result.profile # tasks[3].result.profile

NonDecreasing(ws) == \A k \in 1..(Len(ws) - 1) : ws[k] <= ws[k + 1]

\* C3: a fetch_json call whose every attempt got a non-200 answer has issued
\* exactly 3 GETs when the error reaches the caller, has waited between
\* consecutive attempts, and no wait is shorter than the one before or
\* longer than 8.
C3_RetryBound ==
  \A i \in TaskIds :
    Raised(i, "RetryError") =>
      /\ tasks[i].ngets = 3
      /\ Len(tasks[i].waits) = tasks[i].ngets - 1
      /\ NonDecreasing(tasks[i].waits)
      /\ \A k \in 1..Len(tasks[i].waits) :
           tasks[i].waits[k] >= 1 /\ tasks[i].waits[k] <= 8

\* C3 witness: a call has given up after its retries.
C3_Witness ==
  \E i \in TaskIds : Raised(i, "RetryError") /\ tasks[i].waits = <<1, 2>>

\* C4 as claimed: once two calls for a URL have returned, at most one GET
\* was issued for it in total and the second result equals the first.
C4_AtMostOneGet ==
  (last # None /\ last.n >= 2) => (gets <= 1 /\ last.v = last.v1)

\* C4 amended: once a call for a URL has returned a value that is not null
\* while no other GET of that URL was in flight, no further GET is issued
\* for the URL and every later call returns a value equal to that result.
C4_CachedAfterFirst ==
  (first # None /\ first.solo) => (gets = first.gets /\ last.v = first.v)

\* C4 witness: a second call returned after such a first one, which had
\* needed more than one GET.
C4_Witness ==
  /\ first # None /\ first.solo
  /\ first.gets >= 2
  /\ last.n >= 2

\* the search found no hit
NoHitDone(i) == Done(i) /\ tasks[i].hit = None

\* C5: when the search finds no hit, enrich_company ends in EnrichmentError
\* if the fallback is off, or on and returning nothing (None or an empty
\* record); it returns a profile only when the fallback is on and returned
\* data, and then name is the input name, aliases is empty and sources
\* holds the fallback's entry alone.
C5_NoHitOutcome ==
  \A i \in TaskIds :
    NoHitDone(i) =>
      LET t == tasks[i]
      IN  /\ ~use_llm => Raised(i, "EnrichmentError")
          /\ (use_llm /\ t.web_data # Unset /\ ~DictTruthy(t.web_data))
               => Raised(i, "EnrichmentError")
          /\ Profiled(i) =>
               /\ use_llm /\ DictTruthy(t.web_data)
               /\ t.result.profile.name = names[i]
               /\ t.result.profile.aliases = <<>>
               /\ DOMAIN t.result.profile.sources = {"anthropic_web_search"}

\* C5 witness: no hit, and the fallback's data became the profile.
C5_Witness ==
  \E i \in TaskIds : NoHitDone(i) /\ Profiled(i)

\* C6: a summary fetch that is answered non-200 on every attempt does not
\* fail the enrichment.
C6_SummaryFailureTolerated ==
  \A i \in TaskIds :
    ~(Raised(i, "RetryError") /\ tasks[i].result.stage = "summary")

\* C7: no exception raised in the fallback resolver reaches the caller of
\* enrich_company.
C7_FallbackNeverRaises ==
  \A i \in TaskIds : ~Raised(i, "AnthropicError")

\* a profile built from the knowledge base
KbProfiled(i) == Profiled(i) /\ tasks[i].hit \notin {None, Unset}

\* C8: for a name the knowledge base resolved, aliases is [name] when the
\* normal forms of the name and of the canonical label differ, and empty
\* when they are equal.
C8_AliasRule ==
  \A i \in TaskIds :
    KbProfiled(i) =>
      tasks[i].result.profile.aliases =
        IF normalize(names[i]) = normalize(tasks[i].hit.label)
        THEN <<>> ELSE <<names[i]>>

\* C8 witness: the name and the label differ as typed, by case, a trailing
\* dot or quote and a leading blank, and aliases is empty.
C8_Witness ==
  \E i \in TaskIds :
    /\ KbProfiled(i)
    /\ names[i] = nAbQuote /\ tasks[i].hit.label = nAb
    /\ tasks[i].result.profile.aliases = <<>>

NoDuplicates(s) == \A a, b \in 1..Len(s) : a # b => s[a] # s[b]

\* C9: the key_people of every returned profile has at most 3 entries and
\* no name twice.
C9_KeyPeopleCapNoDup ==
  \A i \in TaskIds :
    Profiled(i) =>
      /\ Len(tasks[i].result.profile.key_people) <= 3
      /\ NoDuplicates(tasks[i].result.profile.key_people)

\* C10: website, sector and hq_location of every returned profile are
\* never null or absent.
C10_FieldsNeverNull ==
  \A i \in TaskIds :
    Profiled(i) =>
      \A f \in {"website", "sector", "hq_location"} :
        tasks[i].result.profile[f] \notin {None, Absent, Unset}

\* the marks a name may end in
Marks == {"'", ",", ".", "!"}

RECURSIVE DropMarks(_)
DropMarks(s) ==
  IF s # <<>> /\ s[Len(s)] \in Marks THEN DropMarks(SubSeq(s, 1, Len(s) - 1))
  ELSE s

\* the two names differ only in letter case or in trailing punctuation
SameButCaseAndMarks(a, b) == LowerStr(DropMarks(a)) = LowerStr(DropMarks(b))

\* C11: is_duplicate(A, acc) is true whenever acc holds A itself, or a name
\* that differs from A only in letter case or in trailing punctuation.
C11_DuplicateUpToCaseAndMarks ==
  (doc.pc # "none" /\ doc.called) =>
    \A k \in 1..Len(doc.acc) :
      (doc.acc[k] = doc.cand \/ SameButCaseAndMarks(doc.cand, doc.acc[k]))
        => doc.dup

\* the candidate of the k-th entity: its text with the blanks around it cut
Cand(k) == Strip(doc.ents[k].text)

\* C19: at every round and at the return of extract_companies, names is the
\* candidates of some ORG entities in document order, no name of it is a
\* duplicate of another, and every ORG entity passed over is a duplicate of
\* a name accepted before it.
C19_FirstSeenSubsequence ==
  doc.pc \in {"loop", "returned"} =>
    /\ Len(doc.kept) = Len(names)
    /\ \A j \in 1..Len(names) :
         /\ doc.kept[j] < doc.next
         /\ doc.ents[doc.kept[j]].label = "ORG"
         /\ names[j] = Cand(doc.kept[j])
    /\ \A a, b \in 1..Len(names) :
         /\ a < b => doc.kept[a] < doc.kept[b]
         /\ a # b => ~IsDup(names[a], <<names[b]>>)
    /\ \A k \in 1..(doc.next - 1) :
         (doc.ents[k].label = "ORG" /\ ~InList(k, doc.kept)) =>
           \E j \in 1..Len(names) :
             doc.kept[j] < k /\ IsDup(Cand(k), <<names[j]>>)

\* C19 witness: the call returned two names and passed over an ORG entity
\* that came after the first of them and whose text is no accepted name.
C19_Witness ==
  /\ doc.pc = "returned"
  /\ Len(names) = 2
  /\ \E k \in 1..Len(doc.ents) :
       /\ doc.ents[k].label = "ORG"
       /\ ~InList(k, doc.kept)
       /\ ~InList(Cand(k), names)
       /\ k > doc.kept[1]

\* C12: a batch run over zero names ends with the empty list written and
\* exit status 0, with no error, no task, no GET and nothing cached.
C12_NoNamesWritesEmptyList ==
  (names = <<>> /\ main.pc \notin {"start", "extract"}) =>
    /\ main.pc = "written"
    /\ main.output = <<>>
    /\ main.exit = 0
    /\ main.error = "none"
    /\ tasks = <<>>
    /\ gets = 0
    /\ cache = Empty

\* C12 witness: such a run has ended, the fallback being on.
C12_Witness ==
  names = <<>> /\ use_llm /\ main.pc = "written" /\ main.output = <<>>

\* the label a claim resolves to when every fetch is answered
LabelOf(w, claim) ==
  CASE claim.k \in {"absent", "novalue"} -> None
    [] claim.k = "lit" -> claim.v
    [] claim.k = "item" -> Get(EntityOf(w, claim.q).label, None)

\* the profile of a hit whose entity has no official-site claim, as it is
\* built with the fallback disabled when every fetch is answered
NoFallbackProfile(w, name, hit) ==
  LET e == EntityOf(w, hit.id)
      execs == add_person(<<>>, LabelOf(w, e.P1037))
      people == IF Len(execs) >= MaxPeople THEN execs
                ELSE add_person(execs, LabelOf(w, e.P112))
  IN  kb_profile(name, hit, WikidataUrl(hit.id),
                 Or(LabelOf(w, e.P452), Unknown),
                 Or(LabelOf(w, e.P159), Unknown),
                 Or(Get(w.extract, S("")), Get(hit.description, S(""))),
                 people)

\* the fallback gave no website: nothing at all, no such key, null, or the
\* "Unknown" sentinel
NoWebsite(web_data) ==
  ~DictTruthy(web_data) \/ web_data.website \in {Absent, None, Unknown}

\* the fallback was asked for the website of a hit without a site claim,
\* it returned, and every fetch was answered
SiteAsked(i) ==
  /\ Done(i)
  /\ use_llm
  /\ faults = 0
  /\ tasks[i].hit \notin {None, Unset}
  /\ Company(tasks[i]).P856 = NoClaim
  /\ tasks[i].web_data # Unset

\* C13: when the entity has no official-site claim and the fallback is on,
\* a profile is returned whose fields other than website are those built
\* with the fallback disabled, and whose website is the knowledge-base URL
\* of the entity when the fallback gave no website.
C13_FallbackOnlyFillsWebsite ==
  \A i \in TaskIds :
    SiteAsked(i) =>
      /\ Profiled(i)
      /\ \A f \in DOMAIN tasks[i].result.profile \ {"website"} :
           tasks[i].result.profile[f] =
             NoFallbackProfile(world, names[i], tasks[i].hit)[f]
      /\ NoWebsite(tasks[i].web_data) =>
           tasks[i].result.profile.website = WikidataUrl(tasks[i].hit.id)

\* C14: a call one of whose GETs met a transport error ends, if it fails,
\* as one whose GETs were all answered non-200 does: after 3 GETs, with the
\* fetcher's transient error.
C14_TransportErrorRetried ==
  \A i \in TaskIds :
    (Done(i) /\ tasks[i].result.k = "raise"
       /\ tasks[i].exc \in TransportErrors) =>
      /\ tasks[i].ngets = StopAfterAttempt
      /\ tasks[i].result.exc \notin TransportErrors

\* C15: an attempt whose body did not decode is the last of its call: the
\* decode error is what the caller gets, no wait and no GET follows it (one
\* GET in all when it was the first attempt), and the cache holds nothing
\* for the URL.
C15_DecodeErrorNotRetried ==
  \A i \in TaskIds :
    tasks[i].exc = "JSONDecodeError" =>
      /\ Raised(i, "JSONDecodeError")
      /\ tasks[i].ngets = Len(tasks[i].waits) + 1
      /\ tasks[i].waits = <<>> => tasks[i].ngets = 1
      /\ Cache_get(cache, tasks[i].url) = None
      /\ Rows(cache, tasks[i].url) = {}

\* C15 witness: a decode error on the first attempt, and one on an attempt
\* that followed a non-200 answer.
C15_Witness ==
  \E i \in TaskIds :
    /\ Raised(i, "JSONDecodeError")
    /\ tasks[i].ngets = 2
    /\ tasks[i].waits = <<1>>

\* the assistant replied, and neither the reply's {...} span nor its
\* repaired form decoded, or the reply has no such span
Unparsed(i) ==
  /\ tasks[i].web_data # Unset
  /\ world.llm.lib /\ world.llm.key /\ world.llm.ctor /\ world.llm.call
  /\ \/ ~world.llm.reply.braces
     \/ world.llm.reply.strict = Fail /\ world.llm.reply.repaired = Fail

\* C16: for a reply on which every parsing stage fails, the fallback
\* returns a record whose website is the first URL of the reply, or
\* "Unknown" when it has none, and whose description is the first 300
\* characters of the reply, marked with an ellipsis when it was cut.
C16_MinimalRecord ==
  \A i \in TaskIds :
    Unparsed(i) =>
      LET reply == world.llm.reply
          record == tasks[i].web_data
      IN  /\ record # None
          /\ record.website = IF reply.url # None THEN reply.url ELSE Unknown
          /\ record.description.excerpt = Min2(reply.len, 300)
          /\ record.description.ellipsis = (reply.len > 300)

\* C17: under any sequence of Cache.set and Cache.get the table holds at most
\* one row per key, a key that was set keeps a row from then on, and a get
\* returns the value of the latest set of its key (None before any set).
C17_OneEntryLatestValue ==
  /\ [](\A key \in CacheKeys :
         /\ Cardinality(Rows(cache, key)) <= 1
         /\ calls.set[key] # Unset => Rows(cache, key) # {}
         /\ calls.set[key] = Unset => Rows(cache, key) = {})
  /\ [][/\ \A row \in cache : Rows(cache', row.k) # {}
        /\ calls'.got # calls.got =>
             calls'.got.value = IF calls.set[calls'.got.key] = Unset
                                THEN None
                                ELSE calls.set[calls'.got.key]]_vars

\* a key was set a second time with another value, and a get then returned
\* the second value
C17_Witness ==
  /\ calls.pc = "cache"
  /\ calls.got # Unset
  /\ calls.got.key \in calls.replaced
  /\ calls.got.value = calls.set[calls.got.key]
  /\ calls.got.value # None

\* the bodies a GET of the URL answered with status 200 can decode to
OkBodies(url) ==
  {Body(url, rev) : rev \in RevsOf(url)} \cup
  (IF url = watch THEN {None} ELSE {})

FetchFailures == TransportErrors \cup {"JSONDecodeError", "RetryError"}

\* this step is an attempt of task i that failed: it goes to the tenacity
\* sleep, or the failure leaves _fetch_json
FailedAttempt(i) ==
  /\ i \in DOMAIN tasks
  /\ tasks[i].pc = "get"
  /\ \/ tasks'[i].pc = "sleep"
     \/ /\ tasks'[i].pc = "done"
        /\ tasks'[i].result.k = "raise"
        /\ tasks'[i].result.exc \in FetchFailures

\* C18: in every interleaving of the tasks' fetches, an attempt that failed
\* (status not 200, transport error, decode error) leaves the cache as it
\* was, the cache changes only in a step where an attempt got status 200 and
\* a decoded body, which becomes the only entry of its URL, and so every
\* entry of a URL is a body a successful GET of that URL returned.
C18_OnlySuccessWrites ==
  /\ [](\A row \in cache : \E data \in OkBodies(row.k) : row.v = Dumps(data))
  /\ [][\A i \in DOMAIN tasks : FailedAttempt(i) => cache' = cache]_vars
  /\ [][cache' # cache =>
         \E i \in DOMAIN tasks :
           /\ tasks[i].pc = "get"
           /\ ~FailedAttempt(i)
           /\ \E data \in OkBodies(tasks[i].url) :
                /\ Rows(cache', tasks[i].url) =
                     {[k |-> tasks[i].url, v |-> Dumps(data)]}
                /\ cache' \ Rows(cache', tasks[i].url) =
                     cache \ Rows(cache, tasks[i].url)]_vars

\* two tasks fetched the watched URL, one attempt failed and was tried
\* again, and the entry of the URL is the body of its second revision
C18_Witness ==
  /\ watch # None
  /\ gets >= 3
  /\ \E i \in DOMAIN tasks :
       /\ tasks[i].exc = "EnrichmentError"
       /\ tasks[i].attempt >= 2
  /\ Rows(cache, watch) = {[k |-> watch, v |-> Dumps(Body(watch, 2))]}
  /\ \E row \in cache : row.k # watch

\* the places of enrich_company where _fetch_json is called
FetchSites == {"search", "entity", "summary", "P452", "P159", "P1037", "P112"}

Terminated ==
  /\ main.pc \in {"written", "aborted"}
  /\ \A i \in DOMAIN tasks : tasks[i].pc = "done"

\* no _fetch_json call has issued more than 3 GETs, and a task has called
\* _fetch_json at most once at each of its call sites
BoundedFetches ==
  \A i \in DOMAIN tasks :
    /\ tasks[i].ngets <= StopAfterAttempt
    /\ NoRepeat(tasks[i].fetched)
    /\ \A k \in 1..Len(tasks[i].fetched) : tasks[i].fetched[k] \in FetchSites

\* C20: when every GET answers or times out, a batch run terminates: no
\* _fetch_json call issues more than 3 GETs, a task calls _fetch_json at most
\* once at each of its seven call sites, a run that cannot go on has ended
\* (no task is left waiting), and the run does end, with every task over and
\* the output written or an error raised.
C20_BatchTerminates ==
  /\ []BoundedFetches
  /\ [](~Ready => Terminated)
  /\ <>[]Terminated

\* a run of three tasks has ended; the last call of one task used up its
\* three GETs, and another task went through three call sites
C20_Witness ==
  /\ Terminated
  /\ Len(names) = NumNames
  /\ \E i, j \in DOMAIN tasks :
       /\ i # j
       /\ tasks[i].ngets = StopAfterAttempt
       /\ Len(tasks[j].fetched) >= 3

====
